---- MODULE Spec2Model ----
(* Model of image_motion.py: a camera (PiCamera or MockCamera), the          *)
(* Backend capture cycle (update = __update_images, __update_display,       *)
(* __handle_motion), the motion score detect_motion_gray, the ImageDisplay  *)
(* textures and the driver start_normal_process with its periodic clock.    *)
EXTENDS Integers, Sequences, FiniteSets, TLC

\* ---------------------------------------------------------------- bounds
\* Grey levels 0..MaxPix are the pixel intensities cameras produce here.
MaxPix == 1
\* pixel_threshold is drawn from 0..MaxPT.
MaxPT == 1
\* Number of Backend.update calls explored with a PiCamera, and the number
\* explored past one full cycle of the samples with a MockCamera.
MaxTicks == 3

\* ------------------------------------------------------ program constants
\* MockCamera.__init__: 60 sample pictures, the cursor starts at 15.
NumImages == 60
MockCameraStartIndex_Zero == NumImages * 0
MockCameraStartIndex == 15

\* ------------------------------------------------------------ images
\* An image is [w, h, px]: px holds w*h pixels row by row. A colour pixel
\* is <<r, g, b>>, an intensity pixel a number. NoImage stands for None.
NoImage == [w |-> 0, h |-> 0, px |-> << >>]
NoScore == <<0, 0>>
NoTexture == [size |-> <<0, 0>>, content |-> << >>]

Black == <<0, 0, 0>>
Red == <<255, 0, 0>>
Palette == {<<v, v, v>> : v \in 0..MaxPix} \cup {Red}

\* Sizes (width, height) of the pictures a camera hands out.
RawSizes == {<<1, 1>>, <<2, 1>>}
RawFramesOfSize(s) == {[w |-> s[1], h |-> s[2], px |-> p] : p \in [1..(s[1] * s[2]) -> Palette]}
RawFrames == UNION {RawFramesOfSize(s) : s \in RawSizes}
Solid(s, c) == [w |-> s[1], h |-> s[2], px |-> [i \in 1..(s[1] * s[2]) |-> c]]

\* The (left, upper, right, lower) boxes of --box explored.
CropBoxes == {<<0, 0, 2, 1>>, <<0, 0, 1, 1>>, <<1, 0, 2, 1>>}
\* motion_threshold values as fractions <<numerator, denominator>>.
MotionThresholds == {<<0, 1>>, <<1, 2>>, <<1, 1>>}

\* PIL Image.crop(box): the result has the size of the box; a pixel of the
\* box outside the picture is black.
PixelAt(img, x, y) ==
    IF x >= 0 /\ x < img.w /\ y >= 0 /\ y < img.h
    THEN img.px[y * img.w + x + 1]
    ELSE Black

\* Faulty crops: one reads one column too far right, one clips the box to
\* the picture instead of padding.
crop_Shifted(img, box) ==
    LET cw == box[3] - box[1]
        ch == box[4] - box[2]
    IN [w |-> cw, h |-> ch,
        px |-> [i \in 1..(cw * ch) |->
                  PixelAt(img, ((i - 1) % cw) + box[1] + 1, ((i - 1) \div cw) + box[2])]]
crop_Clipped(img, box) ==
    LET right == IF box[3] <= img.w THEN box[3] ELSE img.w
        cw == IF right > box[1] THEN right - box[1] ELSE 0
        ch == box[4] - box[2]
    IN [w |-> cw, h |-> ch,
        px |-> [i \in 1..(cw * ch) |->
                  PixelAt(img, ((i - 1) % cw) + box[1], ((i - 1) \div cw) + box[2])]]
crop(img, box) ==
    LET cw == box[3] - box[1]
        ch == box[4] - box[2]
    IN [w |-> cw, h |-> ch,
        px |-> [i \in 1..(cw * ch) |->
                  PixelAt(img, ((i - 1) % cw) + box[1], ((i - 1) \div cw) + box[2])]]

\* PIL convert('L'): L = (299 R + 587 G + 114 B) / 1000, truncated.
Luma(p) == (p[1] * 299 + p[2] * 587 + p[3] * 114) \div 1000

convert_L(img) == [w |-> img.w, h |-> img.h, px |-> [i \in 1..Len(img.px) |-> Luma(img.px[i])]]

\* Backend.__preprocess_image: (cropped, gray).
preprocess_image(img, box) ==
    LET cropped == crop(img, box)
    IN [cropped |-> cropped, gray |-> convert_L(cropped)]

\* ------------------------------------------------------------ motion score
Min(a, b) == IF a <= b THEN a ELSE b

\* ImageChops.subtract clips a - b at 0 (used as a faulty difference).
ChopsSubtract(a, b) == IF a >= b THEN a - b ELSE 0
\* ImageChops.difference per pixel: abs(a - b).
ChopsDifference(a, b) == IF a >= b THEN a - b ELSE b - a

\* ImageChops.difference of two images: over the common size.
difference(g1, g2) ==
    LET dw == Min(g1.w, g2.w)
        dh == Min(g1.h, g2.h)
    IN [w |-> dw, h |-> dh,
        px |-> [i \in 1..(dw * dh) |->
                  ChopsDifference(g1.px[((i - 1) \div dw) * g1.w + ((i - 1) % dw) + 1],
                                  g2.px[((i - 1) \div dw) * g2.w + ((i - 1) % dw) + 1])]]

\* The point() lambda of detect_motion_gray: True is stored as 1.
PointLambda_GE(p, t) == IF p >= t THEN 1 ELSE 0
PointLambda(p, t) == IF p > t THEN 1 ELSE 0

point(img, t) == [w |-> img.w, h |-> img.h, px |-> [i \in 1..Len(img.px) |-> PointLambda(img.px[i], t)]]

RECURSIVE SumSeq(_)
SumSeq(s) == IF Len(s) = 0 THEN 0 ELSE s[1] + SumSeq(Tail(s))

\* ImageStat.Stat(img).sum[0], the count of 1s (used as a faulty aggregate).
StatMean_Sum(img) == <<SumSeq(img.px), 1>>
\* ImageStat.Stat(img).mean[0] = sum / count, kept as the fraction.
StatMean(img) == <<SumSeq(img.px), Len(img.px)>>

detect_motion_gray(gray1, gray2, pixel_diff_threshold) ==
    StatMean(point(difference(gray1, gray2), pixel_diff_threshold))

\* diff_score > self.motion_threshold on fractions with positive denominators.
ExceedsThreshold_GE(score, mt) == score[1] * mt[2] >= mt[1] * score[2]
ExceedsThreshold(score, mt) == score[1] * mt[2] > mt[1] * score[2]

\* ------------------------------------------------------------ display
\* ImageDisplay.__to_core_image(img).texture and Texture.create(size).
to_core_image(img) == [size |-> <<img.w, img.h>>, content |-> img.px]
Texture_create(size) == [size |-> size, content |-> << >>]

\* ------------------------------------------------------------ camera
\* Camera.create_camera(mock) with picamera importable or not.
create_camera(mock, have_picamera) ==
    IF ~mock /\ have_picamera THEN "PiCamera" ELSE "MockCamera"

\* The sample pictures: two pictures of one size alternating.
SampleSets ==
    {[i \in 0..(NumImages - 1) |-> IF i % 2 = 0 THEN Solid(<<2, 1>>, a) ELSE Solid(<<2, 1>>, b)] :
        a \in Palette, b \in Palette}

VARIABLES
    camera,            \* "PiCamera" or "MockCamera"
    images, index,     \* MockCamera.images, MockCamera.index
    crop_box, pixel_threshold, motion_threshold,
    old_gray_image, new_gray_image, new_image,
    diff_score,        \* the last diff_score computed by __handle_motion
    image_texture, alert_texture,
    pc,                \* position of the main thread
    caller,            \* who called the update in progress
    scheduled, due,    \* the Clock event: registered, interval elapsed
    inflight,          \* Backend.update activations in progress
    nupdates,          \* Backend.update calls begun
    nfail,             \* captures that raised
    ncaptures,         \* captures that returned
    captured,          \* the last two pictures capture() returned
    idxlog,            \* the index of each picture MockCamera.capture returned
    alerted,           \* motion_alert was called in the current update
    nalerts,           \* motion_alert calls in all
    ndisplays,         \* update_image calls in all
    capture_ticks      \* the update number of each of the last two captures

config == <<camera, images, crop_box, pixel_threshold, motion_threshold>>
cycle == <<old_gray_image, new_gray_image, new_image>>
display == <<image_texture, alert_texture>>
history == <<nfail, ncaptures, captured, idxlog, nalerts, ndisplays, capture_ticks>>
vars == <<config, index, cycle, diff_score, display, pc, caller, scheduled, due,
          inflight, nupdates, alerted, history>>

\* Backend.__init__: old_gray_image = new_gray_image = new_image = None.
InitialGray_Blank == [w |-> 1, h |-> 1, px |-> <<0>>]
InitialGray == NoImage

TickCap == IF camera = "MockCamera" THEN NumImages + MaxTicks ELSE MaxTicks

Init ==
    /\ \E mock \in BOOLEAN, have_picamera \in BOOLEAN :
          camera = create_camera(mock, have_picamera)
    /\ IF camera = "MockCamera"
       THEN images \in SampleSets /\ index = MockCameraStartIndex
       ELSE images = << >> /\ index = 0
    /\ crop_box \in CropBoxes
    /\ pixel_threshold \in 0..MaxPT
    /\ motion_threshold \in MotionThresholds
    /\ old_gray_image = InitialGray
    /\ new_gray_image = InitialGray
    /\ new_image = NoImage
    /\ diff_score = NoScore
    /\ image_texture = NoTexture
    /\ alert_texture = NoTexture
    /\ pc = "start"
    /\ caller = "none"
    /\ scheduled = FALSE
    /\ due = FALSE
    /\ inflight = 0
    /\ nupdates = 0
    /\ nfail = 0
    /\ ncaptures = 0
    /\ captured = << >>
    /\ idxlog = << >>
    /\ alerted = FALSE
    /\ nalerts = 0
    /\ ndisplays = 0
    /\ capture_ticks = << >>

\* Entering Backend.update.
EnterUpdate(who) ==
    /\ pc' = "update_images"
    /\ caller' = who
    /\ inflight' = inflight + 1
    /\ nupdates' = nupdates + 1
    /\ alerted' = FALSE

\* Where the main thread continues when Backend.update returns.
ReturnTo == IF caller = "startup" THEN "schedule" ELSE "loop"

\* start_normal_process: the synchronous backend.update() before the loop.
StartupUpdate ==
    /\ pc = "start"
    /\ EnterUpdate("startup")
    /\ UNCHANGED <<config, index, cycle, diff_score, display, scheduled, due, history>>

\* The value __update_images stores in old_gray_image.
UpdateImagesOld_Stale == old_gray_image
UpdateImagesOld_KeepFirst ==
    IF old_gray_image = NoImage THEN new_gray_image ELSE old_gray_image
UpdateImagesOld == new_gray_image

Last2(s) == IF Len(s) <= 2 THEN s ELSE SubSeq(s, Len(s) - 1, Len(s))

\* MockCamera.capture: the cursor after a capture.
NextIndex_NoWrap(i, n) == IF i + 1 < n THEN i + 1 ELSE i
NextIndex(i, n) == (i + 1) % n

\* Backend.update: the step that follows __update_images.
AfterUpdateImages_SkipDisplay == "handle_motion"
AfterUpdateImages == "update_display"

\* Backend.__update_images when capture() returns a picture.
UpdateImagesOk ==
    /\ pc = "update_images"
    /\ \E raw \in (IF camera = "MockCamera" THEN {images[index]} ELSE RawFrames) :
          /\ old_gray_image' = UpdateImagesOld
          /\ new_image' = preprocess_image(raw, crop_box).cropped
          /\ new_gray_image' = preprocess_image(raw, crop_box).gray
          /\ captured' = Last2(Append(captured, raw))
          /\ capture_ticks' = Last2(Append(capture_ticks, nupdates))
    /\ IF camera = "MockCamera"
       THEN /\ index' = NextIndex(index, NumImages)
            /\ idxlog' = Append(idxlog, index)
       ELSE UNCHANGED <<index, idxlog>>
    /\ ncaptures' = ncaptures + 1
    /\ pc' = AfterUpdateImages
    /\ UNCHANGED <<config, diff_score, display, caller, scheduled, due, inflight,
                   nupdates, alerted, nfail, nalerts, ndisplays>>

\* Backend.__update_images when PiCamera.capture() raises: line 207 has run,
\* the exception leaves update and, uncaught, ends the program.
UpdateImagesFail ==
    /\ pc = "update_images"
    /\ camera = "PiCamera"
    /\ old_gray_image' = UpdateImagesOld
    /\ nfail' = nfail + 1
    /\ inflight' = inflight - 1
    /\ pc' = "crashed"
    /\ UNCHANGED <<config, index, new_gray_image, new_image, diff_score, display,
                   caller, scheduled, due, nupdates, alerted, ncaptures, captured,
                   idxlog, nalerts, ndisplays, capture_ticks>>

\* ImageDisplay.update_image: what the alert widget shows afterwards.
UpdateImageAlertTexture_Stale == alert_texture
UpdateImageAlertTexture == Texture_create(to_core_image(new_image).size)

\* Backend.__update_display -> ImageDisplay.update_image(new_image).
UpdateDisplay ==
    /\ pc = "update_display"
    /\ image_texture' = to_core_image(new_image)
    /\ alert_texture' = UpdateImageAlertTexture
    /\ ndisplays' = ndisplays + 1
    /\ pc' = "handle_motion"
    /\ UNCHANGED <<config, index, cycle, diff_score, caller, scheduled, due, inflight,
                   nupdates, alerted, nfail, ncaptures, captured, idxlog, nalerts,
                   capture_ticks>>

\* Backend.__handle_motion assigns to none of the image slots.
HandleMotionKeeps_DropsOld ==
    old_gray_image' = NoImage /\ UNCHANGED <<new_gray_image, new_image>>
HandleMotionKeeps == UNCHANGED cycle

\* Backend.__handle_motion, then the return from Backend.update.
HandleMotion ==
    /\ pc = "handle_motion"
    /\ IF old_gray_image = NoImage \/ new_gray_image = NoImage
       THEN UNCHANGED <<diff_score, alert_texture, alerted, nalerts>>
       ELSE /\ diff_score' = detect_motion_gray(old_gray_image, new_gray_image, pixel_threshold)
            /\ IF ExceedsThreshold(diff_score', motion_threshold)
               THEN /\ alert_texture' = image_texture
                    /\ alerted' = TRUE
                    /\ nalerts' = nalerts + 1
               ELSE UNCHANGED <<alert_texture, alerted, nalerts>>
    /\ inflight' = inflight - 1
    /\ pc' = ReturnTo
    /\ HandleMotionKeeps
    /\ UNCHANGED <<config, index, image_texture, caller, scheduled, due,
                   nupdates, nfail, ncaptures, captured, idxlog, ndisplays,
                   capture_ticks>>

\* Clock.schedule_interval(lambda dt: backend.update(), 2), then gui_app.run().
ScheduleInterval ==
    /\ pc = "schedule"
    /\ scheduled' = TRUE
    /\ pc' = "loop"
    /\ UNCHANGED <<config, index, cycle, diff_score, display, caller, due, inflight,
                   nupdates, alerted, history>>

\* The 2 second interval elapses; it may do so while an update is running.
ClockElapse ==
    /\ scheduled
    /\ ~due
    /\ pc # "crashed"
    /\ nupdates < TickCap
    /\ due' = TRUE
    /\ UNCHANGED <<config, index, cycle, diff_score, display, pc, caller, scheduled,
                   inflight, nupdates, alerted, history>>

\* The event loop of gui_app.run() calls a due callback only between callbacks.
CanDispatch_Anytime == pc # "crashed"
CanDispatch == pc = "loop"

ClockDispatch ==
    /\ due
    /\ CanDispatch
    /\ due' = FALSE
    /\ EnterUpdate("clock")
    /\ UNCHANGED <<config, index, cycle, diff_score, display, scheduled, history>>

Next ==
    \/ StartupUpdate
    \/ UpdateImagesOk
    \/ UpdateImagesFail
    \/ UpdateDisplay
    \/ HandleMotion
    \/ ScheduleInterval
    \/ ClockElapse
    \/ ClockDispatch

Spec == Init /\ [][Next]_vars

\* A driver that catches the exception of capture() at the tick boundary:
\* the failed update is abandoned and the main thread goes on where the
\* update would have returned to.
Recover ==
    /\ pc = "crashed"
    /\ pc' = ReturnTo
    /\ UNCHANGED <<config, index, cycle, diff_score, display, caller, scheduled, due,
                   inflight, nupdates, alerted, history>>

NextRetry == Next \/ Recover

\* Backend driven by a caller that goes on calling update after a failure.
SpecRetry == Init /\ [][NextRetry]_vars

TypeOK ==
    /\ camera \in {"PiCamera", "MockCamera"}
    /\ pc \in {"start", "update_images", "update_display", "handle_motion",
               "schedule", "loop", "crashed"}
    /\ inflight \in 0..1
\* ------------------------------------------------------------ properties
Abs(n) == IF n >= 0 THEN n ELSE 0 - n
Idle == pc \in {"schedule", "loop"}

\* C1: the first Backend.update after construction never calls
\* motion_alert, whatever the picture and the thresholds.
C1_FirstUpdateNeverAlerts == nupdates <= 1 => (nalerts = 0 /\ ~alerted)

\* The first update has finished on a non-black picture with threshold 0.
C1_Witness ==
    /\ nupdates = 1
    /\ pc = "schedule"
    /\ motion_threshold = <<0, 1>>
    /\ \E i \in 1..Len(new_gray_image.px) : new_gray_image.px[i] > pixel_threshold

\* C2: after N >= 2 consecutive successful updates, old_gray_image is the
\* processed (N-1)-th captured picture and new_gray_image the processed N-th.
C2_SlidingWindow ==
    (ncaptures >= 2 /\ nfail = 0) =>
        /\ old_gray_image = convert_L(crop(captured[1], crop_box))
        /\ new_gray_image = convert_L(crop(captured[2], crop_box))

\* Three updates have finished and the two slots hold different pictures.
C2_Witness ==
    /\ ncaptures = 3
    /\ pc = "loop"
    /\ old_gray_image # new_gray_image
    /\ captured[1] # captured[2]

\* C3: a capture() that raises during an update leaves old_gray_image and
\* new_gray_image exactly as they were before the call.
C3_CaptureFailureLeavesState ==
    [][nfail' > nfail =>
         (old_gray_image' = old_gray_image /\ new_gray_image' = new_gray_image)]_vars

\* C4: in a finished tick with a previous picture, motion_alert was called
\* if and only if the score is strictly greater than motion_threshold.
C4_AlertIffScoreAbove ==
    (Idle /\ old_gray_image # NoImage) =>
        LET score == detect_motion_gray(old_gray_image, new_gray_image, pixel_threshold)
        IN alerted <=> (score[1] * motion_threshold[2] > motion_threshold[1] * score[2])

\* A finished tick whose non-zero score equals motion_threshold: no alert.
C4_Witness ==
    /\ pc = "loop"
    /\ old_gray_image # NoImage
    /\ diff_score[1] > 0
    /\ diff_score[1] * motion_threshold[2] = motion_threshold[1] * diff_score[2]
    /\ ~alerted

C6_ScoreSymmetric ==
    (Idle /\ old_gray_image # NoImage) =>
        diff_score = detect_motion_gray(new_gray_image, old_gray_image, pixel_threshold)

\* A tick scored two pictures where the new one is brighter somewhere.
C6_Witness ==
    /\ pc = "loop"
    /\ old_gray_image # NoImage
    /\ diff_score[1] > 0
    /\ \E i \in 1..Len(new_gray_image.px) : new_gray_image.px[i] > old_gray_image.px[i]

\* C7: at most one Backend.update is in progress at any time.
C7_AtMostOneTickInFlight == inflight <= 1

\* The interval elapsed while an update was still running: it waits.
C7_Witness == due /\ inflight = 1 /\ pc = "update_display"

\* C8: a capture failure does not stop the scheduler.
C8_CaptureFailureKeepsScheduler == nfail > 0 => pc # "crashed"

\* C9: MockCamera returns its pictures in order, wrapping from the last to
\* the first, so capture k + NumImages returns what capture k returned, and
\* the cursor stays within 0..NumImages-1.
C9_MockCameraCycles ==
    camera = "MockCamera" =>
        /\ index \in 0..(NumImages - 1)
        /\ \A k \in 1..Len(idxlog) :
              /\ k + NumImages <= Len(idxlog) => idxlog[k + NumImages] = idxlog[k]
              /\ k < Len(idxlog) =>
                    idxlog[k + 1] = (IF idxlog[k] = NumImages - 1 THEN 0 ELSE idxlog[k] + 1)
        /\ Len(idxlog) >= 1 => captured[Len(captured)] = images[idxlog[Len(idxlog)]]

\* More than NumImages captures were made, one of them of the last picture.
C9_Witness ==
    /\ camera = "MockCamera"
    /\ Len(idxlog) > NumImages
    /\ \E k \in 1..(Len(idxlog) - 1) : idxlog[k] = NumImages - 1 /\ idxlog[k + 1] = 0

\* C10 as stated: capture NumImages + 1 of a MockCamera returns picture 0.
C10_WrapsToFrameZero ==
    (camera = "MockCamera" /\ Len(idxlog) >= NumImages + 1) => idxlog[NumImages + 1] = 0

\* C10 amended: the first capture and capture NumImages + 1 both return
\* picture 15; picture 0 is returned by capture NumImages - 15 + 1.
C10_WrapsToStartFrame ==
    camera = "MockCamera" =>
        /\ Len(idxlog) >= 1 => idxlog[1] = 15
        /\ Len(idxlog) >= NumImages + 1 => idxlog[NumImages + 1] = 15
        /\ Len(idxlog) >= NumImages - 15 + 1 => idxlog[NumImages - 15 + 1] = 0

\* Capture NumImages + 1 has been made.
C10_Witness == camera = "MockCamera" /\ Len(idxlog) = NumImages + 1

\* The crop box lies within the picture.
Inside(img, box) ==
    box[1] >= 0 /\ box[2] >= 0 /\ box[3] <= img.w /\ box[4] <= img.h
LastCaptured == captured[Len(captured)]
BoxW == crop_box[3] - crop_box[1]
BoxH == crop_box[4] - crop_box[2]
ChangedPixels ==
    {i \in 1..Len(new_gray_image.px) :
        Abs(old_gray_image.px[i] - new_gray_image.px[i]) > pixel_threshold}

\* C11: when the crop box is not fully inside the captured picture the
\* extraction fails and the error reaches the driver: no processed frame is
\* produced and the tick does not go on.
C11_InvalidRegionRaised ==
    (Len(captured) >= 1 /\ ~Inside(LastCaptured, crop_box)) => pc = "crashed"

\* C12 as stated: cropping the cropped frame to the same box gives the
\* cropped frame again, for every box.
C12_CropIdempotent ==
    new_image # NoImage => crop(new_image, crop_box) = new_image

\* C12 amended: cropping the cropped frame to the same box gives the
\* cropped frame again when the box has left = 0 and upper = 0.
C12_CropIdempotentAtOrigin ==
    (new_image # NoImage /\ crop_box[1] = 0 /\ crop_box[2] = 0) =>
        crop(new_image, crop_box) = new_image

\* A frame cropped to a box at the origin whose pixels are not all black.
C12_Witness ==
    /\ new_image # NoImage
    /\ crop_box = <<0, 0, 2, 1>>
    /\ new_image.px[1] # Black
    /\ new_image.px[2] # new_image.px[1]

C14_OneDisplayPerCapture ==
    /\ pc = "update_display" => (ndisplays + 1 = ncaptures /\ ~alerted)
    /\ pc # "update_display" => ndisplays = ncaptures
    /\ (pc \in {"handle_motion", "schedule", "loop"} /\ ncaptures >= 1) =>
          image_texture = to_core_image(crop(LastCaptured, crop_box))
    /\ alerted => ndisplays = ncaptures

\* The second update displayed its picture and then raised an alert.
C14_Witness ==
    /\ pc = "loop"
    /\ ncaptures = 2
    /\ ndisplays = 2
    /\ alerted

\* C15: the two slots start empty and change only in the __update_images
\* step; the crop box and the two thresholds never change.
C15_CycleStateFrame ==
    /\ old_gray_image = NoImage /\ new_gray_image = NoImage
    /\ [][/\ pc # "update_images" => UNCHANGED <<old_gray_image, new_gray_image>>
          /\ UNCHANGED <<crop_box, pixel_threshold, motion_threshold>>]_vars

\* Two updates ran their display and alert steps on populated slots.
C15_Witness ==
    /\ pc = "loop"
    /\ old_gray_image # NoImage
    /\ ndisplays >= 2
    /\ nalerts >= 1

\* C16: after every completed update the alert widget shows the displayed
\* picture if and only if that update raised an alert.
C16_AlertViewMatchesTick ==
    (Idle /\ nupdates >= 1) => ((alert_texture = image_texture) <=> alerted)

\* An earlier update alerted, the latest one did not and cleared the view.
C16_Witness ==
    /\ pc = "loop"
    /\ nalerts >= 1
    /\ ~alerted
    /\ alert_texture # image_texture

\* C17: whenever both slots are populated they have the width and height of
\* the crop box, whatever the sizes of the captured pictures.
C17_SameDimensions ==
    (old_gray_image # NoImage /\ new_gray_image # NoImage) =>
        /\ old_gray_image.w = BoxW /\ new_gray_image.w = BoxW
        /\ old_gray_image.h = BoxH /\ new_gray_image.h = BoxH
        /\ Len(old_gray_image.px) = BoxW * BoxH
        /\ Len(new_gray_image.px) = BoxW * BoxH

\* Two pictures of different widths were captured and scored.
C17_Witness ==
    /\ pc = "loop"
    /\ Len(captured) = 2
    /\ captured[1].w # captured[2].w
    /\ old_gray_image # NoImage
    /\ diff_score # NoScore

====
